---- MODULE Spec2Model ----
(***************************************************************************)
(* Model of scripts/update_smart_contracts.py: the extraction pipeline of  *)
(* main(), the label and seed helpers, and the non-destructive merge of    *)
(* fresh contract descriptors into the persisted collection.               *)
(*                                                                         *)
(* A descriptor is a record with the fields filename, name, label,         *)
(* contract_index, address and procedures (github_url is a function of the *)
(* filename that no operation reads, and is left out).  A key that is      *)
(* absent from the JSON object (or null) is NoVal for a string field and   *)
(* NoIndex for contract_index.  A string is a sequence of one-character    *)
(* strings; where no operation looks inside a string (the names, labels    *)
(* and addresses of the merge specification) it is the one-element         *)
(* sequence Str(t) of an opaque token.                                     *)
(***************************************************************************)
EXTENDS Integers, Sequences, FiniteSets, TLC

VARIABLES
    \* the merge specification (Spec)
    doc,        \* the persisted collection existing_top["smart_contracts"]
    fresh,      \* the fresh_entries list of the last merge
    before,     \* the persisted collection as it was before the last merge
    runs,       \* number of merges done so far
    phase,      \* "init" | "merged" | "again": what the last step was
    \* the label specification (SpecLabel)
    stem_in,    \* the filename stem
    label_out,  \* label_from_filename_with_q_rule(stem), once labelled
    labelled,
    \* the seed specification (SpecSeed)
    idx_in,     \* the contract index, [lo, shift]
    seed_out,   \* index_to_base56(idx), once encoded
    encoded,
    \* the run of main() (SpecMain)
    pc,             \* where main() is: "start", "loop", "identity", "merge",
                    \* "done", "aborted" (SystemExit) or "crashed" (an
                    \* exception left main())
    disk,           \* the content of the data file
    files,          \* sorted(basenames), each with its idx_map and idx_to_name entry
    pos,            \* the loop's position in files
    cur_text,       \* fetch_text(url) of the current file
    fresh_entries,
    existing_top,   \* the document read from the data file
    log             \* the calls made so far to the collaborators and the data file

mergeVars == <<doc, fresh, before, runs, phase>>
labelVars == <<stem_in, label_out, labelled>>
seedVars == <<idx_in, seed_out, encoded>>
mainVars == <<pc, disk, files, pos, cur_text, fresh_entries, existing_top, log>>

vars == <<mergeVars, labelVars, seedVars, mainVars>>

\* ------------------------------------------------------------------ values

NoVal == <<"<absent>">>
Empty == <<>>
Str(t) == <<t>>
NoIndex == -1
Sentinel == 1000000000

\* ------------------------------------------------------------------ bounds

MaxRuns == 2
MaxStemLen == 3
MaxLo == 300
MaxShift == 57

\* ------------------------------------------------------- helpers: text/format
\* A Python string is a sequence of one-character strings.

UpperChars ==
    <<"A", "B", "C", "D", "E", "F", "G", "H", "I", "J", "K", "L", "M",
      "N", "O", "P", "Q", "R", "S", "T", "U", "V", "W", "X", "Y", "Z">>

LowerChars ==
    <<"a", "b", "c", "d", "e", "f", "g", "h", "i", "j", "k", "l", "m",
      "n", "o", "p", "q", "r", "s", "t", "u", "v", "w", "x", "y", "z">>

DigitChars == {"0", "1", "2", "3", "4", "5", "6", "7", "8", "9"}

WhiteChars == {" ", "\t", "\n"}

IsUpperChar(c) == \E i \in 1..Len(UpperChars) : UpperChars[i] = c

IsLowerChar(c) == \E i \in 1..Len(LowerChars) : LowerChars[i] = c

IsAlpha(c) == IsUpperChar(c) \/ IsLowerChar(c)

ToUpper(c) ==
    IF IsLowerChar(c)
    THEN UpperChars[CHOOSE i \in 1..Len(LowerChars) : LowerChars[i] = c]
    ELSE c

ToLower(c) ==
    IF IsUpperChar(c)
    THEN LowerChars[CHOOSE i \in 1..Len(UpperChars) : UpperChars[i] = c]
    ELSE c

\* str.upper(), str.lower()
Upper(s) == [i \in 1..Len(s) |-> ToUpper(s[i])]

Lower(s) == [i \in 1..Len(s) |-> ToLower(s[i])]

\* str.isupper(): some cased character, and no lowercase one
IsUpperStr(s) ==
    /\ \E i \in 1..Len(s) : IsUpperChar(s[i])
    /\ \A i \in 1..Len(s) : ~IsLowerChar(s[i])

\* str.capitalize(): first character upper, the rest lower
Capitalize(s) ==
    IF s = <<>> THEN <<>> ELSE <<ToUpper(s[1])>> \o Lower(Tail(s))

\* str.split(sep) on a one-character separator: empty pieces are kept
RECURSIVE SplitOn(_, _)
SplitOn(s, sep) ==
    IF \A i \in 1..Len(s) : s[i] # sep THEN <<s>>
    ELSE LET k == CHOOSE i \in 1..Len(s) :
                      s[i] = sep /\ \A j \in 1..(i - 1) : s[j] # sep
         IN  <<SubSeq(s, 1, k - 1)>> \o SplitOn(SubSeq(s, k + 1, Len(s)), sep)

\* str.split(): pieces between runs of whitespace, none empty
RECURSIVE SplitWhite(_, _)
SplitWhite(s, cur) ==
    IF s = <<>> THEN (IF cur = <<>> THEN <<>> ELSE <<cur>>)
    ELSE IF Head(s) \in WhiteChars
    THEN (IF cur = <<>> THEN <<>> ELSE <<cur>>) \o SplitWhite(Tail(s), <<>>)
    ELSE SplitWhite(Tail(s), Append(cur, Head(s)))

\* re.sub(r"(?<!^)(?=[A-Z])", " ", name): a space before every capital
\* letter that is not the first character
CamelSpaced(name) ==
    LET RECURSIVE Go(_)
        Go(i) ==
            IF i > Len(name) THEN <<>>
            ELSE (IF i > 1 /\ IsUpperChar(name[i]) THEN <<" ", name[i]>> ELSE <<name[i]>>)
                 \o Go(i + 1)
    IN  Go(1)

CharClass(c) ==
    IF IsAlpha(c) THEN "alpha" ELSE IF c \in DigitChars THEN "digit" ELSE "other"

\* re.findall(r"[A-Za-z]+|\d+", p): the maximal runs of letters and of digits
RECURSIVE AlnumRuns(_, _)
AlnumRuns(p, cur) ==
    LET flush == IF cur = <<>> THEN <<>> ELSE <<cur>>
    IN  IF p = <<>> THEN flush
        ELSE LET c == Head(p)
             IN  IF CharClass(c) = "other" THEN flush \o AlnumRuns(Tail(p), <<>>)
                 ELSE IF cur # <<>> /\ CharClass(cur[1]) # CharClass(c)
                 THEN flush \o AlnumRuns(Tail(p), <<c>>)
                 ELSE AlnumRuns(Tail(p), Append(cur, c))

RECURSIVE RunsOfParts(_)
RunsOfParts(parts) ==
    IF parts = <<>> THEN <<>>
    ELSE AlnumRuns(Head(parts), <<>>) \o RunsOfParts(Tail(parts))

split_camel_or_snake(name) ==
    LET parts == IF \E i \in 1..Len(name) : name[i] = "_"
                 THEN SplitOn(name, "_")
                 ELSE SplitWhite(CamelSpaced(name), <<>>)
    IN  RunsOfParts(parts)

SMALL_WORDS ==
    {<<"a">>, <<"a", "n">>, <<"t", "h", "e">>, <<"a", "n", "d">>, <<"b", "u", "t">>,
     <<"o", "r">>, <<"n", "o", "r">>, <<"s", "o">>, <<"y", "e", "t">>, <<"a", "t">>,
     <<"b", "y">>, <<"f", "o", "r">>, <<"f", "r", "o", "m">>, <<"i", "n">>,
     <<"i", "n", "t", "o">>, <<"o", "f">>, <<"o", "n">>, <<"o", "n", "t", "o">>,
     <<"o", "u", "t">>, <<"o", "v", "e", "r">>, <<"t", "o">>, <<"u", "p">>,
     <<"w", "i", "t", "h">>, <<"a", "s">>, <<"p", "e", "r">>, <<"v", "i", "a">>,
     <<"v", "s">>, <<"v", "s", ".">>, <<"o", "f", "f">>, <<"t", "h", "a", "n">>,
     <<"t", "i", "l", "l">>, <<"u", "n", "t", "i", "l">>, <<"p", "a", "s", "t">>,
     <<"n", "e", "a", "r">>, <<"d", "o", "w", "n">>, <<"u", "p", "o", "n">>,
     <<"w", "i", "t", "h", "i", "n">>, <<"w", "i", "t", "h", "o", "u", "t">>,
     <<"t", "h", "r", "o", "u", "g", "h">>, <<"a", "b", "o", "u", "t">>,
     <<"b", "e", "f", "o", "r", "e">>, <<"a", "f", "t", "e", "r">>,
     <<"a", "r", "o", "u", "n", "d">>, <<"b", "e", "h", "i", "n", "d">>,
     <<"b", "e", "l", "o", "w">>, <<"b", "e", "n", "e", "a", "t", "h">>,
     <<"b", "e", "s", "i", "d", "e">>, <<"b", "e", "t", "w", "e", "e", "n">>,
     <<"b", "e", "y", "o", "n", "d">>, <<"d", "u", "r", "i", "n", "g">>,
     <<"i", "n", "s", "i", "d", "e">>, <<"o", "u", "t", "s", "i", "d", "e">>,
     <<"u", "n", "d", "e", "r">>, <<"u", "n", "d", "e", "r", "n", "e", "a", "t", "h">>,
     <<"a", "c", "r", "o", "s", "s">>, <<"a", "l", "o", "n", "g">>,
     <<"a", "m", "i", "d">>, <<"a", "m", "o", "n", "g">>,
     <<"d", "e", "s", "p", "i", "t", "e">>, <<"e", "x", "c", "e", "p", "t">>,
     <<"i", "n", "c", "l", "u", "d", "i", "n", "g">>, <<"l", "i", "k", "e">>,
     <<"s", "i", "n", "c", "e">>, <<"t", "o", "w", "a", "r", "d">>,
     <<"t", "o", "w", "a", "r", "d", "s">>,
     <<"r", "e", "g", "a", "r", "d", "i", "n", "g">>}

TitleWord(words, i) ==
    LET w == words[i]
    IN  IF IsUpperStr(w) /\ Len(w) > 1 THEN w
        ELSE IF i \notin {1, Len(words)} /\ Lower(w) \in SMALL_WORDS THEN Lower(w)
        ELSE Capitalize(w)

\* " ".join(out)
RECURSIVE JoinSpace(_)
JoinSpace(ws) ==
    IF ws = <<>> THEN <<>>
    ELSE IF Len(ws) = 1 THEN ws[1]
    ELSE ws[1] \o <<" ">> \o JoinSpace(Tail(ws))

title_with_small_words(words) ==
    JoinSpace([i \in 1..Len(words) |-> TitleWord(words, i)])

pretty_label_from_filename(stem) ==
    title_with_small_words(split_camel_or_snake(stem))

pretty_procedure_name(identifier) ==
    title_with_small_words(split_camel_or_snake(identifier))

label_from_filename_with_q_rule(stem) ==
    IF stem = <<>> THEN <<>>
    ELSE IF ToLower(stem[1]) # "q" \/ Len(stem) = 1
    THEN pretty_label_from_filename(stem)
    ELSE LET rest  == Tail(stem)
             first == ToUpper(rest[1])
             tail  == Tail(rest)
         IN  IF IsUpperStr(stem)
             THEN <<"Q", first>> \o Lower(tail)
             ELSE <<"Q", first>> \o tail

\* ------------------------------------------------------------ address helpers
\* A Python integer is unbounded.  An index is the record [lo, shift] standing
\* for lo * 16^shift, so that values of 57 and more nibbles are reachable; the
\* operations the code applies to it are exact on this form.

SeedLen == 56
IdentityLen == 60

Alphabet ==
    <<"A", "B", "C", "D", "E", "F", "G", "H", "I", "J", "K", "L", "M", "N", "O", "P">>

IntIndex(n) == [lo |-> n, shift |-> 0]

\* n > 0, n <= 0
IsPositive(n) == n.lo > 0

\* n & 0xF
LowNibble(n) == IF n.shift > 0 THEN 0 ELSE n.lo % 16

\* mutant: n >>= 3
ShiftRight4_By3(n) ==
    IF n.shift > 0 THEN [n EXCEPT !.shift = @ - 1] ELSE [n EXCEPT !.lo = @ \div 8]

\* n >>= 4
ShiftRight4(n) ==
    IF n.shift > 0 THEN [n EXCEPT !.shift = @ - 1] ELSE [n EXCEPT !.lo = @ \div 16]

\* while n > 0 and len(chars) < 56
RECURSIVE NibbleLoop(_, _)
NibbleLoop(n, chars) ==
    IF IsPositive(n) /\ Len(chars) < SeedLen
    THEN NibbleLoop(ShiftRight4(n), Append(chars, Alphabet[LowNibble(n) + 1]))
    ELSE chars

\* while len(chars) < 56
RECURSIVE PadLoop(_)
PadLoop(chars) ==
    IF Len(chars) < SeedLen THEN PadLoop(Append(chars, "A")) ELSE chars

index_to_base56(n) ==
    IF ~IsPositive(n) THEN [k \in 1..SeedLen |-> "A"]
    ELSE SubSeq(PadLoop(NibbleLoop(n, <<>>)), 1, SeedLen)

\* ------------------------------------------------------------ JSON merge/sort

ProcIds(procs) == {procs[i].id : i \in 1..Len(procs)}

\* position of the last item of procs carrying id pid (a dict assignment in
\* a loop: the last one wins)
LastPos(procs, pid) ==
    CHOOSE i \in 1..Len(procs) :
        /\ procs[i].id = pid
        /\ \A j \in (i+1)..Len(procs) : procs[j].id # pid

RECURSIVE SortedIds(_)
SortedIds(S) ==
    IF S = {} THEN <<>>
    ELSE LET m == CHOOSE x \in S : \A y \in S : x <= y
         IN  <<m>> \o SortedIds(S \ {m})

normalize_procs_to_list(procs) ==
    LET ids == SortedIds(ProcIds(procs))
    IN  [k \in 1..Len(ids) |->
            [id |-> ids[k], name |-> procs[LastPos(procs, ids[k])].name]]

\* list.sort(key=id): stable insertion into an ascending list
RECURSIVE InsertProc(_, _)
InsertProc(sorted, p) ==
    IF sorted = <<>> THEN <<p>>
    ELSE IF sorted[Len(sorted)].id <= p.id THEN Append(sorted, p)
    ELSE Append(InsertProc(SubSeq(sorted, 1, Len(sorted) - 1), p), sorted[Len(sorted)])

RECURSIVE SortProcs(_)
SortProcs(l) ==
    IF l = <<>> THEN <<>>
    ELSE InsertProc(SortProcs(SubSeq(l, 1, Len(l) - 1)), l[Len(l)])

\* mutant: the fresh items appended without the membership test
AppendNewProcs_NoTest(ex_list, new_list) == ex_list \o new_list

\* the loop of lines 371-374: append the fresh items whose id is not yet there
RECURSIVE AppendNewProcs(_, _)
AppendNewProcs(ex_list, new_list) ==
    IF new_list = <<>> THEN ex_list
    ELSE LET p == Head(new_list)
         IN  IF p.id \in ProcIds(ex_list)
             THEN AppendNewProcs(ex_list, Tail(new_list))
             ELSE AppendNewProcs(Append(ex_list, p), Tail(new_list))

\* mutant: the union started from the fresh list, so the fresh names win
UnionProcs_FreshFirst(ex_procs, new_procs) ==
    SortProcs(AppendNewProcs(normalize_procs_to_list(new_procs),
                             normalize_procs_to_list(ex_procs)))

UnionProcs(ex_procs, new_procs) ==
    SortProcs(AppendNewProcs(normalize_procs_to_list(ex_procs),
                             normalize_procs_to_list(new_procs)))

\* filename -> position in contracts (0: not indexed); a later entry with the
\* same filename replaces an earlier one
index_by_filename(contracts) ==
    [fn \in {contracts[i].filename : i \in 1..Len(contracts)} \ {NoVal} |->
        CHOOSE i \in 1..Len(contracts) :
            /\ contracts[i].filename = fn
            /\ \A j \in (i+1)..Len(contracts) : contracts[j].filename # fn]

MergeName(ex, new) ==
    IF new.name # NoVal THEN new.name ELSE ex.name

MergeIndex(ex, new) ==
    IF new.contract_index # NoIndex THEN new.contract_index ELSE ex.contract_index

\* mutant: the address overwritten like the name, whatever the fresh value
MergeAddress_Always(ex, new) == new.address

MergeAddress(ex, new) ==
    IF new.address \notin {NoVal, Empty} THEN new.address ELSE ex.address

\* mutant: the fresh label taken whenever it is a string
MergeLabel_FreshWins(ex, new) ==
    IF new.label # NoVal THEN new.label ELSE ex.label

MergeLabel(ex, new) ==
    IF ex.label \in {NoVal, Empty} /\ new.label # NoVal THEN new.label ELSE ex.label

\* lines 355-376: the persisted entry ex updated in place from the fresh one
UpdateEntry(ex, new) ==
    [filename       |-> ex.filename,
     name           |-> MergeName(ex, new),
     label          |-> MergeLabel(ex, new),
     contract_index |-> MergeIndex(ex, new),
     address        |-> MergeAddress(ex, new),
     procedures     |-> UnionProcs(ex.procedures, new.procedures)]

\* lines 349-353: an unseen filename is appended with its procedures normalized
NewEntry(new) ==
    [new EXCEPT !.procedures = normalize_procs_to_list(new.procedures)]

\* one iteration of the loop over fresh; st = [existing, by_filename]
MergeOne(st, new) ==
    IF new.filename = NoVal THEN st
    ELSE IF new.filename \notin DOMAIN st.by_filename
    THEN [existing    |-> Append(st.existing, NewEntry(new)),
          by_filename |-> [fn \in DOMAIN st.by_filename \cup {new.filename} |->
                              IF fn = new.filename THEN Len(st.existing) + 1
                              ELSE st.by_filename[fn]]]
    ELSE LET i == st.by_filename[new.filename]
         IN  [existing    |-> [st.existing EXCEPT ![i] = UpdateEntry(st.existing[i], new)],
              by_filename |-> st.by_filename]

RECURSIVE MergeLoop(_, _)
MergeLoop(st, fr) ==
    IF fr = <<>> THEN st
    ELSE MergeLoop(MergeOne(st, Head(fr)), Tail(fr))

\* mutant: the result rebuilt from the fresh list alone
merge_contracts_FreshOnly(existing, fr) ==
    MergeLoop([existing |-> <<>>, by_filename |-> [fn \in {} |-> 0]], fr).existing

merge_contracts(existing, fr) ==
    MergeLoop([existing |-> existing, by_filename |-> index_by_filename(existing)],
              fr).existing

SortKey(sc) ==
    IF sc.contract_index # NoIndex THEN sc.contract_index ELSE Sentinel

\* sorted(): stable, ascending by key
RECURSIVE InsertContract(_, _)
InsertContract(sorted, sc) ==
    IF sorted = <<>> THEN <<sc>>
    ELSE IF SortKey(sorted[Len(sorted)]) <= SortKey(sc) THEN Append(sorted, sc)
    ELSE Append(InsertContract(SubSeq(sorted, 1, Len(sorted) - 1), sc),
                sorted[Len(sorted)])

RECURSIVE sort_contracts(_)
sort_contracts(contracts) ==
    IF contracts = <<>> THEN <<>>
    ELSE InsertContract(sort_contracts(SubSeq(contracts, 1, Len(contracts) - 1)),
                        contracts[Len(contracts)])

\* ------------------------------------------------------------ main: helpers

\* Optional[str]
None == [none |-> TRUE, val |-> <<>>]
Some(v) == [none |-> FALSE, val |-> v]

\* A reply of requests.get: kind "ok" is status 200, "status" any other
\* status, "error" an exception.  A text is [blank, sites]: whether it is the
\* empty string, and the REGISTER_USER_PROCEDURE call sites REGISTER_RE finds
\* in it once its comments are stripped, in textual order.
fetch_text(reply) ==
    IF reply.kind = "ok" THEN Some(reply.text) ELSE None

\* "if text:" / "if not contract_def_text:"
Truthy(t) == ~t.none /\ ~t.val.blank

find_registers(text) == text.sites

\* lines 421-423
RegsOf(t) == IF Truthy(t) THEN find_registers(t.val) ELSE <<>>

\* lines 425-431 with the test of line 428 dropped: a later site of an id
\* overwrites the name of the earlier one
RECURSIVE DedupLoop_LastWins(_, _, _)
DedupLoop_LastWins(regs, seen, procs) ==
    IF regs = <<>> THEN procs
    ELSE LET r == Head(regs)
             p == [id |-> r.num, name |-> pretty_procedure_name(r.name)]
         IN  IF r.num \in seen
             THEN DedupLoop_LastWins(Tail(regs), seen,
                      [i \in 1..Len(procs) |->
                          IF procs[i].id = r.num THEN p ELSE procs[i]])
             ELSE DedupLoop_LastWins(Tail(regs), seen \cup {r.num},
                                     Append(procs, p))

\* lines 425-431: the first site of each id is kept
RECURSIVE DedupLoop(_, _, _)
DedupLoop(regs, seen, procs) ==
    IF regs = <<>> THEN procs
    ELSE LET r == Head(regs)
         IN  IF r.num \in seen THEN DedupLoop(Tail(regs), seen, procs)
             ELSE DedupLoop(Tail(regs), seen \cup {r.num},
                            Append(procs, [id |-> r.num,
                                           name |-> pretty_procedure_name(r.name)]))

\* lines 425-432
ProcsOf(regs) == SortProcs(DedupLoop(regs, {}, <<>>))

\* Path(basename).stem: the name without its last suffix
PathStem(basename) ==
    LET dots == {i \in 2..(Len(basename) - 1) : basename[i] = "."}
    IN  IF dots = {} THEN basename
        ELSE SubSeq(basename, 1, (CHOOSE i \in dots : \A j \in dots : j <= i) - 1)

\* idx_to_name.get(cidx, stem.upper()); desc is empty when idx_to_name has no cidx
NameValue(file) ==
    IF file.desc # <<>> THEN file.desc ELSE Upper(PathStem(file.basename))

\* str.strip()
RECURSIVE StripLeft(_)
StripLeft(s) ==
    IF s # <<>> /\ Head(s) \in WhiteChars THEN StripLeft(Tail(s)) ELSE s

RECURSIVE StripRight(_)
StripRight(s) ==
    IF s # <<>> /\ s[Len(s)] \in WhiteChars
    THEN StripRight(SubSeq(s, 1, Len(s) - 1)) ELSE s

Strip(s) == StripRight(StripLeft(s))

\* The outcome of the node helper: "no_js" the library file does not exist,
\* "no_node" FileNotFoundError, "failed" CalledProcessError (a non-zero exit,
\* which the helper also takes when the identity is no string of length 60),
\* "ok" an exit of 0 with stdout.
run_js_get_identity_from_index(cidx, outcome) ==
    IF outcome.kind = "ok" THEN Some(Strip(outcome.stdout)) ELSE None

\* mutant: any identity the helper printed is taken as the address
DeriveAddress_AnyLength(identity, cidx) ==
    IF ~identity.none /\ identity.val # <<>> THEN identity.val
    ELSE index_to_base56(IntIndex(cidx))

\* lines 439-444
DeriveAddress(identity, cidx) ==
    IF ~identity.none /\ identity.val # <<>> /\ Len(identity.val) = IdentityLen
    THEN identity.val
    ELSE index_to_base56(IntIndex(cidx))

\* lines 448-456
Descriptor(file, t, identity) ==
    [filename       |-> file.basename,
     name           |-> NameValue(file),
     label          |-> label_from_filename_with_q_rule(PathStem(file.basename)),
     contract_index |-> file.cidx,
     address        |-> DeriveAddress(identity, file.cidx),
     procedures     |-> ProcsOf(RegsOf(t))]

\* mutant: a file whose source could not be fetched is skipped
ProcessFile_SkipUnfetched(entries, file, t, identity) ==
    IF t.none THEN entries ELSE Append(entries, Descriptor(file, t, identity))

\* lines 418-456: the loop body once the index is known
ProcessFile(entries, file, t, identity) ==
    Append(entries, Descriptor(file, t, identity))

\* The data file: "missing" (read_text raises), "invalid" (json.loads raises),
\* "nondict" (a top level that is no object) or "dict"; of a dict,
\* smart_contracts is absent, no list ("other") or the list sc, and extra says
\* whether the object has other keys.
NoDocument == [kind |-> "missing", sc_kind |-> "absent", sc |-> <<>>, extra |-> FALSE]

\* lines 458-463
ReadTop(d) ==
    IF d.kind = "dict" THEN d
    ELSE [kind |-> "dict", sc_kind |-> "absent", sc |-> <<>>, extra |-> FALSE]

\* A record of the persisted list that is no JSON object (a number, a string,
\* null): it has no get method.
JunkRecord == [junk |-> "42"]

IsDict(sc) == "junk" \notin DOMAIN sc

\* line 336: sc.get raises AttributeError on a record that is no dict, and
\* nothing between there and main() catches it
IndexRaises(contracts) ==
    \E i \in 1..Len(contracts) : ~IsDict(contracts[i])

\* lines 465-467
ExistingSc(top) == IF top.sc_kind = "list" THEN top.sc ELSE <<>>

\* lines 469-472
MergedTop(top, fr) ==
    [top EXCEPT !.sc_kind = "list",
                !.sc = sort_contracts(merge_contracts(ExistingSc(top), fr))]

\* the data file opened without waiting for the loop of lines 413-456
ReadReady_Early(p, fs) == TRUE

\* lines 413-458: the data file is opened once the loop over the files is over
ReadReady(p, fs) == p > Len(fs)

Event(e, f, k, o, d) == [ev |-> e, file |-> f, kind |-> k, ok |-> o, data |-> d]

\* --------------------------------------------------- the merge specification

Proc(i, n) == [id |-> i, name |-> n]

\* persisted descriptors of A.h: the label absent, empty or set by hand, the
\* index absent or present, the procedures empty or a hand-edited unsorted list
PersistedA ==
    {[filename |-> Str("A.h"), name |-> Str("OLD"), label |-> l, contract_index |-> c,
      address |-> ap[1], procedures |-> ap[2]] :
        l \in {NoVal, Empty, Str("Manual")},
        c \in {NoIndex, 2},
        ap \in {<<NoVal, <<>> >>,
                <<Str("ADDR0"), <<Proc(2, Str("Two")), Proc(1, Str("One"))>> >>}}

\* persisted descriptors of B.h, a file the fresh extraction never yields
PersistedB ==
    {[filename |-> Str("B.h"), name |-> Str("OLDB"), label |-> Str("ManualB"),
      contract_index |-> c, address |-> Str("ADDRB"),
      procedures |-> <<Proc(7, Str("Seven")), Proc(5, Str("Five"))>>] :
        c \in {NoIndex, 2}}

PersistedDocs ==
    {<<>>} \cup {<<a>> : a \in PersistedA}
           \cup {<<a, b>> : a \in PersistedA, b \in PersistedB}
           \cup {<<b, a>> : a \in PersistedA, b \in PersistedB}

\* fresh descriptors as the extraction builds them: name and index always set
FreshEntries ==
    {[filename |-> f, name |-> Str("NEW"), label |-> l, contract_index |-> cp[1],
      address |-> a, procedures |-> cp[2]] :
        f \in {Str("A.h"), Str("C.h")},
        l \in {Empty, Str("Auto")},
        a \in {NoVal, Empty, Str("ADDR1")},
        cp \in {<<1, <<>> >>,
                <<3, <<Proc(1, Str("Uno")), Proc(3, Str("Three"))>> >>,
                <<Sentinel + 1, <<Proc(3, Str("Three"))>> >>}}

\* the extraction yields its descriptors in ascending filename order
FreshLists ==
    {<<>>} \cup {<<e>> : e \in FreshEntries}
           \cup {<<a, c>> : a \in {e \in FreshEntries : /\ e.filename = Str("A.h")
                                                       /\ e.label = Str("Auto")
                                                       /\ e.address = Str("ADDR1")
                                                       /\ e.contract_index = 3},
                            c \in {e \in FreshEntries : /\ e.filename = Str("C.h")
                                                       /\ e.label = Str("Auto")
                                                       /\ e.address = Str("ADDR1")}}

MergeInit ==
    /\ doc \in PersistedDocs
    /\ fresh = <<>>
    /\ before = doc
    /\ runs = 0
    /\ phase = "init"

MergeIdle ==
    /\ doc = <<>> /\ fresh = <<>> /\ before = <<>> /\ runs = 0 /\ phase = "idle"

LabelIdle ==
    /\ stem_in = <<>> /\ label_out = <<>> /\ labelled = FALSE

SeedIdle ==
    /\ idx_in = IntIndex(0) /\ seed_out = <<>> /\ encoded = FALSE

MainIdle ==
    /\ pc = "idle" /\ disk = NoDocument /\ files = <<>> /\ pos = 0 /\ cur_text = None
    /\ fresh_entries = <<>> /\ existing_top = NoDocument /\ log = <<>>

Init ==
    MergeInit /\ LabelIdle /\ SeedIdle /\ MainIdle

\* main, lines 469-472: merge a fresh extraction and sort
Merge(fr) ==
    /\ phase \in {"init", "merged", "again"}
    /\ runs < MaxRuns
    /\ doc' = sort_contracts(merge_contracts(doc, fr))
    /\ fresh' = fr
    /\ before' = doc
    /\ runs' = runs + 1
    /\ phase' = "merged"
    /\ UNCHANGED <<labelVars, seedVars, mainVars>>

\* a second run over unchanged sources: the same fresh list merged again
MergeAgain ==
    /\ phase = "merged"
    /\ doc' = sort_contracts(merge_contracts(doc, fresh))
    /\ before' = doc
    /\ phase' = "again"
    /\ UNCHANGED <<fresh, runs, labelVars, seedVars, mainVars>>

Next ==
    \/ \E fr \in FreshLists : Merge(fr)
    \/ MergeAgain

Spec == Init /\ [][Next]_vars

\* --------------------------------------------------- the label specification

StemChars == {"Q", "q", "x", "U", "_", "1"}

RECURSIVE StemsOfLen(_)
StemsOfLen(n) ==
    IF n = 0 THEN {<<>>}
    ELSE {Append(s, c) : s \in StemsOfLen(n - 1), c \in StemChars}

\* the stems the documentation of the label rule names
DocumentedStems ==
    {<<"Q", "x">>, <<"Q", "U", "T", "I", "L">>, <<"Q", "s", "w", "a", "p">>,
     <<"Q", "V", "A", "U", "L", "T">>, <<"Q", "b", "a", "y">>,
     <<"G", "e", "n", "e", "r", "a", "l", "Q", "u", "o", "r", "u", "m",
       "P", "r", "o", "p", "o", "s", "a", "l">>}

Stems ==
    DocumentedStems \cup UNION {StemsOfLen(n) : n \in 0..MaxStemLen}

LabelInit ==
    /\ stem_in \in Stems
    /\ label_out = <<>>
    /\ labelled = FALSE

\* main, lines 434-435
LabelFile ==
    /\ ~labelled
    /\ label_out' = label_from_filename_with_q_rule(stem_in)
    /\ labelled' = TRUE
    /\ UNCHANGED <<stem_in, mergeVars, seedVars, mainVars>>

InitLabel ==
    LabelInit /\ MergeIdle /\ SeedIdle /\ MainIdle

NextLabel == LabelFile

SpecLabel == InitLabel /\ [][NextLabel]_vars

\* ---------------------------------------------------- the seed specification

SeedInit ==
    /\ idx_in \in [lo : (0 - 2)..MaxLo, shift : 0..MaxShift]
    /\ seed_out = <<>>
    /\ encoded = FALSE

\* main, line 444 (and run_js_get_identity_from_index, line 269)
EncodeSeed ==
    /\ ~encoded
    /\ seed_out' = index_to_base56(idx_in)
    /\ encoded' = TRUE
    /\ UNCHANGED <<idx_in, mergeVars, labelVars, mainVars>>

InitSeed ==
    SeedInit /\ MergeIdle /\ LabelIdle /\ MainIdle

NextSeed == EncodeSeed

SpecSeed == InitSeed /\ [][NextSeed]_vars

\* ------------------------------------------------------ the run of main()

Chars(c, n) == [k \in 1..n |-> c]

FileQUTIL ==
    [basename |-> <<"Q", "U", "T", "I", "L", ".", "h">>, cidx |-> 4, desc |-> <<>>]

FileQx ==
    [basename |-> <<"Q", "x", ".", "h">>, cidx |-> 18, desc |-> <<"Q", "X">>]

\* a file no index is resolved for
FileZ ==
    [basename |-> <<"Z", ".", "h">>, cidx |-> NoIndex, desc |-> <<>>]

\* what contract_def.h yields: the basenames in sorted order
DefTables ==
    {<<>>, <<FileQUTIL>>, <<FileQx>>, <<FileZ>>, <<FileQUTIL, FileQx>>,
     <<FileQUTIL, FileZ>>, <<FileQx, FileZ>>, <<FileQUTIL, FileQx, FileZ>>}

Site(n, ident) == [num |-> n, name |-> ident]

Texts ==
    {[blank |-> TRUE, sites |-> <<>>],
     [blank |-> FALSE, sites |-> <<>>],
     [blank |-> FALSE,
      sites |-> <<Site(2, <<"f", "o", "o">>), Site(1, <<"i", "s", "s", "u", "e", "A">>),
                  Site(2, <<"b", "a", "r">>)>>]}

Replies ==
    {[kind |-> "ok", text |-> t] : t \in Texts}
        \cup {[kind |-> k, text |-> [blank |-> TRUE, sites |-> <<>>]] :
                 k \in {"status", "error"}}

Stdouts ==
    {Chars("I", IdentityLen), Chars("I", IdentityLen) \o <<"\n">>,
     Chars("I", IdentityLen - 1), Chars("I", IdentityLen + 1), <<>>}

Outcomes ==
    {[kind |-> k, stdout |-> <<>>] : k \in {"no_js", "no_node", "failed"}}
        \cup {[kind |-> "ok", stdout |-> o] : o \in Stdouts}

PersistedQx ==
    [filename |-> <<"Q", "x", ".", "h">>, name |-> <<"O", "L", "D">>,
     label |-> <<"M", "y">>, contract_index |-> 2, address |-> <<"A", "D">>,
     procedures |-> <<[id |-> 2, name |-> <<"K", "e", "p", "t">>]>>]

PersistedOld ==
    [filename |-> <<"O", "l", "d", ".", "h">>, name |-> <<"O", "L", "D">>,
     label |-> NoVal, contract_index |-> NoIndex, address |-> NoVal,
     procedures |-> <<>>]

Disks ==
    {[kind |-> k, sc_kind |-> "absent", sc |-> <<>>, extra |-> FALSE] :
        k \in {"missing", "invalid", "nondict"}}
    \cup {[kind |-> "dict", sc_kind |-> k, sc |-> <<>>, extra |-> TRUE] :
        k \in {"absent", "other"}}
    \cup {[kind |-> "dict", sc_kind |-> "list", sc |-> l, extra |-> x] :
        l \in {<<>>, <<PersistedQx>>, <<PersistedOld, PersistedQx>>},
        x \in BOOLEAN}
    \cup {[kind |-> "dict", sc_kind |-> "list", sc |-> <<PersistedQx, JunkRecord>>,
           extra |-> FALSE]}

MainInit ==
    /\ pc = "start"
    /\ disk \in Disks
    /\ files = <<>>
    /\ pos = 0
    /\ cur_text = None
    /\ fresh_entries = <<>>
    /\ existing_top = NoDocument
    /\ log = <<>>

InitMain ==
    MainInit /\ MergeIdle /\ LabelIdle /\ SeedIdle

\* lines 400-410: contract_def.h is fetched and parsed, or the run aborts
FetchContractDef ==
    /\ pc = "start"
    /\ \E reply \in Replies :
         LET t == fetch_text(reply)
         IN  /\ log' = Append(log, Event("fetch_def", <<>>, reply.kind, Truthy(t), <<>>))
             /\ IF ~Truthy(t)
                THEN pc' = "aborted" /\ UNCHANGED <<files, pos>>
                ELSE /\ pc' = "loop"
                     /\ files' \in DefTables
                     /\ pos' = 1
    /\ UNCHANGED <<disk, cur_text, fresh_entries, existing_top>>
    /\ UNCHANGED <<mergeVars, labelVars, seedVars>>

\* lines 414-416: a basename without a resolved index is passed over
SkipFile ==
    /\ pc = "loop"
    /\ pos <= Len(files)
    /\ files[pos].cidx = NoIndex
    /\ pos' = pos + 1
    /\ UNCHANGED <<pc, disk, files, cur_text, fresh_entries, existing_top, log>>
    /\ UNCHANGED <<mergeVars, labelVars, seedVars>>

\* lines 418-419: the file's source is fetched
FetchFile ==
    /\ pc = "loop"
    /\ pos <= Len(files)
    /\ files[pos].cidx # NoIndex
    /\ \E reply \in Replies :
         /\ cur_text' = fetch_text(reply)
         /\ log' = Append(log, Event("fetch", files[pos].basename, reply.kind,
                                     reply.kind = "ok", reply.text.sites))
    /\ pc' = "identity"
    /\ UNCHANGED <<disk, files, pos, fresh_entries, existing_top>>
    /\ UNCHANGED <<mergeVars, labelVars, seedVars>>

\* lines 421-456: the node helper is run and the descriptor appended
BuildDescriptor ==
    /\ pc = "identity"
    /\ \E outcome \in Outcomes :
         LET identity == run_js_get_identity_from_index(files[pos].cidx, outcome)
         IN  /\ fresh_entries' = ProcessFile(fresh_entries, files[pos], cur_text, identity)
             /\ log' = Append(log, Event("identity", files[pos].basename, outcome.kind,
                                         ~identity.none, identity.val))
    /\ cur_text' = None
    /\ pos' = pos + 1
    /\ pc' = "loop"
    /\ UNCHANGED <<disk, files, existing_top>>
    /\ UNCHANGED <<mergeVars, labelVars, seedVars>>

\* lines 458-467: the data file is read once the loop has ended
ReadPersisted ==
    /\ pc = "loop"
    /\ ReadReady(pos, files)
    /\ existing_top' = ReadTop(disk)
    /\ log' = Append(log, Event("read", <<>>, disk.kind, disk.kind = "dict", <<>>))
    /\ pc' = "merge"
    /\ UNCHANGED <<disk, files, pos, cur_text, fresh_entries>>
    /\ UNCHANGED <<mergeVars, labelVars, seedVars>>

\* lines 469-475: merge, sort and write the data file
MergeAndWrite ==
    /\ pc = "merge"
    /\ ~IndexRaises(ExistingSc(existing_top))
    /\ disk' = MergedTop(existing_top, fresh_entries)
    /\ existing_top' = disk'
    /\ log' = Append(log, Event("write", <<>>, "dict", TRUE, <<>>))
    /\ pc' = "done"
    /\ UNCHANGED <<files, pos, cur_text, fresh_entries>>
    /\ UNCHANGED <<mergeVars, labelVars, seedVars>>

\* line 469: merge_contracts raises out of index_by_filename; the exception
\* leaves main() and the data file is not written
MergeRaises ==
    /\ pc = "merge"
    /\ IndexRaises(ExistingSc(existing_top))
    /\ pc' = "crashed"
    /\ UNCHANGED <<disk, files, pos, cur_text, fresh_entries, existing_top, log>>
    /\ UNCHANGED <<mergeVars, labelVars, seedVars>>

NextMain ==
    \/ FetchContractDef
    \/ SkipFile
    \/ FetchFile
    \/ BuildDescriptor
    \/ ReadPersisted
    \/ MergeAndWrite
    \/ MergeRaises

SpecMain == InitMain /\ [][NextMain]_vars

\* ------------------------------------------------------------------ claims

Filenames(l) == {l[i].filename : i \in 1..Len(l)}

EntryOf(l, fn) == l[CHOOSE i \in 1..Len(l) : l[i].filename = fn]

NameOfId(procs, pid) == procs[CHOOSE i \in 1..Len(procs) : procs[i].id = pid].name

Merged == phase \in {"merged", "again"}

\* the filenames both persisted before the last merge and in its fresh list
Updated == Filenames(before) \cap Filenames(fresh)

\* C1: merging the same fresh list into the merged, sorted document a second
\* time yields an identical document (same entries, order and field values).
C1_MergeIdempotent ==
    phase = "again" => doc = before

C1_Witness ==
    /\ phase = "again"
    /\ Str("A.h") \in Filenames(doc) /\ Str("A.h") \in Filenames(fresh)
    /\ Len(EntryOf(doc, Str("A.h")).procedures) = 3
    /\ Len(doc) = 3

\* C2: a persisted non-empty label survives every merge unchanged; the fresh
\* label is taken only when the persisted label is empty or absent.
C2_ManualLabelPreserved ==
    Merged =>
        \A fn \in Filenames(before) :
            LET e == EntryOf(before, fn)
                d == EntryOf(doc, fn)
            IN  /\ fn \in Filenames(doc)
                /\ e.label \notin {NoVal, Empty} => d.label = e.label
                /\ d.label # e.label =>
                      /\ e.label \in {NoVal, Empty}
                      /\ fn \in Filenames(fresh)
                      /\ d.label = EntryOf(fresh, fn).label

C2_Witness ==
    /\ phase = "merged" /\ runs = 2
    /\ Str("A.h") \in Updated
    /\ EntryOf(before, Str("A.h")).label = Str("Manual")
    /\ EntryOf(fresh, Str("A.h")).label = Str("Auto")

\* C3: no merge deletes a descriptor, and a persisted entry whose filename is
\* not in the fresh list keeps every field, its procedures list included.
C3_NeverDeleted ==
    Merged =>
        /\ Len(doc) >= Len(before)
        /\ \A fn \in Filenames(before) :
              /\ fn \in Filenames(doc)
              /\ fn \notin Filenames(fresh) => EntryOf(doc, fn) = EntryOf(before, fn)

C3_Witness ==
    /\ phase = "merged"
    /\ Str("B.h") \in Filenames(before) /\ Str("A.h") \in Updated /\ Str("C.h") \in Filenames(fresh)
    /\ EntryOf(doc, Str("B.h")).procedures = <<Proc(7, Str("Seven")), Proc(5, Str("Five"))>>

\* C4: the emitted collection is ascending by contract_index and every entry
\* lacking a contract_index comes after all entries that have one, whatever
\* the values of the real indices.
C4_SortedAbsentLast ==
    Merged =>
        \A i, j \in 1..Len(doc) :
            i < j =>
                /\ ~(doc[i].contract_index = NoIndex /\ doc[j].contract_index # NoIndex)
                /\ (doc[i].contract_index # NoIndex /\ doc[j].contract_index # NoIndex)
                      => doc[i].contract_index <= doc[j].contract_index

\* C5: for a filename already persisted the merged procedures are the union by
\* id: persisted ids keep the persisted name, ids only in the fresh list get
\* the fresh name, nothing is dropped, ids are unique and strictly ascending.
C5_ProcedureUnion ==
    Merged =>
        \A fn \in Updated :
            LET ep == EntryOf(before, fn).procedures
                np == EntryOf(fresh, fn).procedures
                dp == EntryOf(doc, fn).procedures
            IN  /\ ProcIds(dp) = ProcIds(ep) \cup ProcIds(np)
                /\ \A pid \in ProcIds(ep) : NameOfId(dp, pid) = NameOfId(ep, pid)
                /\ \A pid \in ProcIds(np) \ ProcIds(ep) :
                      NameOfId(dp, pid) = NameOfId(np, pid)
                /\ \A i \in 1..(Len(dp) - 1) : dp[i].id < dp[i + 1].id

C5_Witness ==
    /\ phase = "merged"
    /\ Str("A.h") \in Updated
    /\ EntryOf(before, Str("A.h")).procedures = <<Proc(2, Str("Two")), Proc(1, Str("One"))>>
    /\ EntryOf(fresh, Str("A.h")).procedures = <<Proc(1, Str("Uno")), Proc(3, Str("Three"))>>
    /\ EntryOf(doc, Str("A.h")).procedures = <<Proc(1, Str("One")), Proc(2, Str("Two")), Proc(3, Str("Three"))>>

\* C6: for a filename already persisted the merge overwrites name and
\* contract_index with the fresh values, and the address only when the fresh
\* address is non-empty.
C6_AuthoritativeFields ==
    Merged =>
        \A fn \in Updated :
            LET e == EntryOf(before, fn)
                n == EntryOf(fresh, fn)
                d == EntryOf(doc, fn)
            IN  /\ d.name = n.name
                /\ d.contract_index = n.contract_index
                /\ d.address = IF n.address \in {NoVal, Empty} THEN e.address ELSE n.address

C6_Witness ==
    /\ phase = "merged"
    /\ Str("A.h") \in Updated
    /\ EntryOf(before, Str("A.h")).address = Str("ADDR0")
    /\ EntryOf(before, Str("A.h")).contract_index = 2
    /\ EntryOf(fresh, Str("A.h")).address = Empty
    /\ EntryOf(doc, Str("A.h")).address = Str("ADDR0")
    /\ EntryOf(doc, Str("A.h")).contract_index = 3

\* the Q-prefix rule, and the fallback for the other stems
C7_QRule ==
    labelled =>
        IF Len(stem_in) >= 2 /\ stem_in[1] \in {"Q", "q"}
        THEN label_out = <<"Q", ToUpper(stem_in[2])>>
                       \o (IF IsUpperStr(stem_in) THEN Lower(SubSeq(stem_in, 3, Len(stem_in)))
                                               ELSE SubSeq(stem_in, 3, Len(stem_in)))
        ELSE label_out = title_with_small_words(split_camel_or_snake(stem_in))

\* the cases the documentation of the rule lists
C7_DocumentedCases ==
    labelled =>
        /\ stem_in = <<"Q", "x">> => label_out = <<"Q", "x">>
        /\ stem_in = <<"Q", "U", "T", "I", "L">> => label_out = <<"Q", "U", "t", "i", "l">>
        /\ stem_in = <<"Q", "s", "w", "a", "p">> => label_out = <<"Q", "S", "w", "a", "p">>
        /\ stem_in = <<"Q", "V", "A", "U", "L", "T">> => label_out = <<"Q", "V", "a", "u", "l", "t">>
        /\ stem_in = <<"Q", "b", "a", "y">> => label_out = <<"Q", "B", "a", "y">>
        /\ Len(stem_in) = 21 =>
              label_out = <<"G", "e", "n", "e", "r", "a", "l", " ", "Q", "u", "o", "r", "u", "m",
                        " ", "P", "r", "o", "p", "o", "s", "a", "l">>

\* C7: the filename-stem label follows the Q-prefix rule (reserved letter,
\* second character uppercased, tail lowercased iff the stem is all-uppercase;
\* other stems through tokenizer and title-caser), and the documented cases
\* hold: Qx -> Qx, QUTIL -> QUtil, Qswap -> QSwap, QVAULT -> QVault,
\* Qbay -> QBay, GeneralQuorumProposal -> General Quorum Proposal.
C7_LabelRule == C7_QRule /\ C7_DocumentedCases

\* nibble k of lo * 16^shift, for lo below 16^7
NibbleAt(n, k) ==
    IF k < n.shift \/ k - n.shift >= 7 THEN 0
    ELSE (n.lo \div (16 ^ (k - n.shift))) % 16

\* C8: index_to_base56 returns exactly 56 symbols over A..P: all 'A' for an
\* index <= 0; for an index > 0 symbol k is the letter of nibble k of the
\* index, least significant first, padded with 'A' and cut after 56 nibbles.
C8_SeedEncoding ==
    encoded =>
        /\ Len(seed_out) = 56
        /\ \A k \in 1..Len(seed_out) : \E a \in 1..16 : Alphabet[a] = seed_out[k]
        /\ idx_in.lo <= 0 => \A k \in 1..Len(seed_out) : seed_out[k] = "A"
        /\ idx_in.lo > 0 => \A k \in 0..55 : seed_out[k + 1] = Alphabet[NibbleAt(idx_in, k) + 1]

\* an index of 57 nibbles, 0x11 * 16^55: the top nibble is cut off
C8_Witness ==
    /\ encoded
    /\ idx_in = [lo |-> 17, shift |-> 55]
    /\ seed_out[56] = "B" /\ seed_out[55] = "A" /\ Len(seed_out) = 56

FileOf(f) == files[CHOOSE i \in 1..Len(files) : files[i].basename = f]

IsEvent(k, e) == log[k].ev = e

\* C9: the node helper unavailable, failing or returning anything but a
\* string of 60 characters leaves the descriptor with the 56-character seed of
\* its contract_index as address; the descriptor is emitted and the run goes
\* on; otherwise the address is the returned identity.
C9_AddressDegrades ==
    \A k \in 1..Len(log) :
        IsEvent(k, "identity") =>
            LET f == log[k].file
                returned == log[k].ok /\ Len(log[k].data) = 60
            IN  /\ pc # "aborted"
                /\ f \in Filenames(fresh_entries)
                /\ returned => EntryOf(fresh_entries, f).address = log[k].data
                /\ ~returned =>
                      /\ EntryOf(fresh_entries, f).address
                            = index_to_base56(IntIndex(FileOf(f).cidx))
                      /\ Len(EntryOf(fresh_entries, f).address) = 56

\* the helper failed for QUTIL.h and answered for Qx.h, and the run completed
C9_Witness ==
    /\ pc = "done"
    /\ Len(fresh_entries) = 2
    /\ \E k \in 1..Len(log) :
          IsEvent(k, "identity") /\ log[k].kind = "failed" /\ log[k].file = FileQUTIL.basename
    /\ \E k \in 1..Len(log) :
          /\ IsEvent(k, "identity") /\ log[k].kind = "ok" /\ log[k].file = FileQx.basename
          /\ Len(log[k].data) = 60
    /\ fresh_entries[1].address = <<"E">> \o Chars("A", 55)
    /\ fresh_entries[2].address = Chars("I", 60)
    /\ {FileQUTIL.basename, FileQx.basename} \subseteq Filenames(disk.sc)

FetchEvents == SelectSeq(log, LAMBDA e : e.ev = "fetch")

SiteIds(sites) == {sites[i].num : i \in 1..Len(sites)}

LoopEnded == pc \in {"merge", "done", "crashed"}

\* C10 as claimed: a file whose source fetch fails has no descriptor in the
\* fresh extraction output, and the other files have theirs.
C10_FailedFetchOmitted ==
    LoopEnded =>
        \A j \in 1..Len(FetchEvents) :
            /\ ~FetchEvents[j].ok => FetchEvents[j].file \notin Filenames(fresh_entries)
            /\ FetchEvents[j].ok => FetchEvents[j].file \in Filenames(fresh_entries)

\* C10 as amended: a file whose source fetch fails still has its descriptor
\* in the fresh extraction output, with an empty procedures list; every file
\* with a resolved index is fetched and has a descriptor, in order, and the
\* descriptor of a fetched file has the procedure ids of its own call sites.
C10_FailedFetchEmptyProcedures ==
    LoopEnded =>
        /\ Len(fresh_entries) = Len(FetchEvents)
        /\ {files[i].basename : i \in {n \in 1..Len(files) : files[n].cidx # NoIndex}}
              = Filenames(fresh_entries)
        /\ \A j \in 1..Len(FetchEvents) :
              LET d == fresh_entries[j]
              IN  /\ d.filename = FetchEvents[j].file
                  /\ d.contract_index = FileOf(d.filename).cidx
                  /\ ~FetchEvents[j].ok => d.procedures = <<>>
                  /\ FetchEvents[j].ok =>
                        ProcIds(d.procedures) = SiteIds(FetchEvents[j].data)

\* the fetch of QUTIL.h failed, that of Qx.h found call sites; both emitted
C10_Witness ==
    /\ pc = "done"
    /\ Len(FetchEvents) = 2
    /\ FetchEvents[1].kind = "status" /\ FetchEvents[2].kind = "ok"
    /\ Len(fresh_entries) = 2
    /\ fresh_entries[1].filename = FileQUTIL.basename
    /\ fresh_entries[1].procedures = <<>>
    /\ Len(fresh_entries[2].procedures) = 2

ReadEvents == SelectSeq(log, LAMBDA e : e.ev = "read")

WriteEvents == SelectSeq(log, LAMBDA e : e.ev = "write")

\* C11: whatever the data file holds (missing, invalid JSON, a top level or a
\* collection of the wrong type, malformed records in the collection), the run
\* reads it as a collection, completes the merge and the write, and no
\* exception leaves main().
C11_MalformedStateTolerated ==
    /\ pc # "crashed"
    /\ pc = "merge" =>
          /\ Len(ReadEvents) = 1
          /\ existing_top.kind = "dict"
          /\ ~IndexRaises(ExistingSc(existing_top))
    /\ pc = "done" =>
          /\ Len(WriteEvents) = 1
          /\ disk.kind = "dict" /\ disk.sc_kind = "list"

\* C12: when the descriptor table cannot be fetched the run aborts and the
\* data file is never written; every run that does not abort writes the data
\* file exactly once, as its last step, after every fresh descriptor has been
\* built and merged.
C12_AbortOrSingleWrite ==
    /\ (Len(log) > 0 /\ ~log[1].ok) =>
          (pc = "aborted" /\ Len(log) = 1)
    /\ pc = "aborted" => (Len(log) = 1 /\ ~log[1].ok)
    /\ Len(WriteEvents) <= 1
    /\ Len(WriteEvents) = 1 =>
          /\ pc = "done"
          /\ log[Len(log)].ev = "write"
          /\ pos > Len(files)
          /\ Filenames(fresh_entries) \subseteq Filenames(disk.sc)
    /\ pc \in {"done", "crashed"} => Len(WriteEvents) = 1

\* the position of the first call site that registers id n
FirstSite(sites, n) ==
    CHOOSE k \in 1..Len(sites) :
        /\ sites[k].num = n
        /\ \A m \in 1..(k - 1) : sites[m].num # n

\* C13: the procedures of a descriptor hold every id of the file's call sites
\* exactly once, named after the first site of that id, in strictly ascending
\* order of id; a file without call sites, or without text, gets an empty
\* list and its descriptor is emitted all the same.
C13_ProcedureDedup ==
    \A j \in 1..Len(fresh_entries) :
        LET sites == IF FetchEvents[j].ok THEN FetchEvents[j].data ELSE <<>>
            p == fresh_entries[j].procedures
        IN  /\ fresh_entries[j].filename = FetchEvents[j].file
            /\ ProcIds(p) = SiteIds(sites)
            /\ \A a, b \in 1..Len(p) : a < b => p[a].id < p[b].id
            /\ \A a \in 1..Len(p) :
                  p[a].name =
                      pretty_procedure_name(sites[FirstSite(sites, p[a].id)].name)
            /\ sites = <<>> => p = <<>>
            /\ pc # "aborted"

\* sites (2, foo), (1, issueA), (2, bar): id 1 comes first and id 2 keeps foo
C13_Witness ==
    /\ pc = "done"
    /\ Len(fresh_entries) = 2
    /\ FetchEvents[1].ok /\ Len(FetchEvents[1].data) = 3
    /\ FetchEvents[2].ok /\ FetchEvents[2].data = <<>>
    /\ fresh_entries[2].procedures = <<>>
    /\ Len(fresh_entries[1].procedures) = 2
    /\ fresh_entries[1].procedures[1].id = 1
    /\ fresh_entries[1].procedures[2] =
          [id |-> 2, name |-> pretty_procedure_name(<<"f", "o", "o">>)]
    /\ pretty_procedure_name(<<"f", "o", "o">>)
          # pretty_procedure_name(<<"b", "a", "r">>)

IdentityEvents == SelectSeq(log, LAMBDA e : e.ev = "identity")

\* the positions in the log of the events of one kind
PositionsOf(ev) == {i \in 1..Len(log) : log[i].ev = ev}

IndexedFiles == {n \in 1..Len(files) : files[n].cidx # NoIndex}

\* C14 as claimed: a run reads the data file exactly once and writes it exactly
\* once, the read before every per-file fetch and every derivation of an
\* identity, the write after all of them.
C14_ReadAtStart ==
    pc = "done" =>
        /\ Len(ReadEvents) = 1
        /\ Len(WriteEvents) = 1
        /\ \A r \in PositionsOf("read"), w \in PositionsOf("write") :
              \A i \in PositionsOf("fetch") \cup PositionsOf("identity") :
                  r < i /\ i < w

\* C14 as amended: a run reads the data file at most once and writes it at
\* most once; the read comes after the fetch and the identity derivation of
\* every file with an index, not at the start; a write is the last step of
\* the run and directly follows the read; a run that comes to its end has
\* one read and one write, an aborted run has neither.
C14_ReadAfterLoopWriteLast ==
    /\ Len(ReadEvents) <= 1
    /\ Len(WriteEvents) <= 1
    /\ LoopEnded <=> Len(ReadEvents) = 1
    /\ \A r \in PositionsOf("read") :
          /\ \A i \in PositionsOf("fetch_def") \cup PositionsOf("fetch")
                       \cup PositionsOf("identity") : i < r
          /\ Len(FetchEvents) = Cardinality(IndexedFiles)
          /\ Len(IdentityEvents) = Cardinality(IndexedFiles)
          /\ Len(fresh_entries) = Cardinality(IndexedFiles)
    /\ \A w \in PositionsOf("write") :
          /\ w = Len(log)
          /\ log[w - 1].ev = "read"
    /\ pc = "done" <=> Len(WriteEvents) = 1
    /\ pc = "aborted" => Len(ReadEvents) = 0

\* both files were fetched and given an identity before the data file was
\* read; the write is the next and last event
C14_Witness ==
    /\ pc = "done"
    /\ Len(FetchEvents) = 2
    /\ Len(IdentityEvents) = 2
    /\ \E r \in PositionsOf("read") :
          /\ r = Len(log) - 1
          /\ \A i \in PositionsOf("fetch") \cup PositionsOf("identity") : i < r
    /\ log[Len(log)].ev = "write"

====
